---- MODULE Spec2Model ----
(***************************************************************************)
(* A model of the EDA web utility (src/app.py): the upload handler, the    *)
(* coercion / imputation / plotting routine generate_plots, the document   *)
(* builder generate_pdf and the download handler, together with the pandas *)
(* operations they call (read_csv, to_numeric, mean, mode, fillna, to_csv, *)
(* head, to_html), modelled on small tables.                               *)
(*                                                                         *)
(* Text is a sequence of one-character strings.  A number is held in fixed *)
(* point, in units of 1/Scale (Decimals decimal places): a float of finite *)
(* precision.  A cell is NaN, a number or a string.                        *)
(***************************************************************************)
EXTENDS Integers, Sequences, FiniteSets, TLC

\* ------------------------------------------------------------------ bounds
\* The largest table: columns x rows <= MaxCells.
MaxCells == 3
\* The number of upload requests a behaviour holds.
MaxRequests == 2
\* The decimal places the model's floats keep.
Decimals == 2

\* 10^n.
RECURSIVE Pow10(_)
Pow10(n) == IF n = 0 THEN 1 ELSE 10 * Pow10(n - 1)

Scale == Pow10(Decimals)

\* -------------------------------------------------------------------- text
Digits == <<"0", "1", "2", "3", "4", "5", "6", "7", "8", "9">>

IsDigit(c) == \E i \in 1..10 : Digits[i] = c

DigitVal(c) == (CHOOSE i \in 1..10 : Digits[i] = c) - 1

\* Code points of the characters the model uses (Python compares str by them).
CharCode(c) ==
    CASE c = " " -> 32
      [] c = "," -> 44
      [] c = "." -> 46
      [] IsDigit(c) -> 48 + DigitVal(c)
      [] c = "N" -> 78
      [] c = "a" -> 97
      [] c = "n" -> 110
      [] OTHER -> 120

\* a < b on str: lexicographic by code point.
RECURSIVE StrLess(_, _)
StrLess(a, b) ==
    IF b = <<>> THEN FALSE
    ELSE IF a = <<>> THEN TRUE
    ELSE IF CharCode(Head(a)) # CharCode(Head(b))
         THEN CharCode(Head(a)) < CharCode(Head(b))
    ELSE StrLess(Tail(a), Tail(b))

\* str.replace(c, ''): every occurrence of the character removed.
RemoveChar(s, c) == SelectSeq(s, LAMBDA x : x # c)

RECURSIVE LStrip(_)
LStrip(s) == IF s # <<>> /\ Head(s) = " " THEN LStrip(Tail(s)) ELSE s

RECURSIVE RStrip(_)
RStrip(s) ==
    IF s # <<>> /\ s[Len(s)] = " " THEN RStrip(SubSeq(s, 1, Len(s) - 1)) ELSE s

\* str.strip(): surrounding whitespace removed.
Strip(s) == RStrip(LStrip(s))

IsIntLiteral(s) == s # <<>> /\ \A i \in 1..Len(s) : IsDigit(s[i])

\* digits "." digits
IsFloatLiteral(s) ==
    \E k \in 1..Len(s) :
        /\ s[k] = "."
        /\ IsIntLiteral(SubSeq(s, 1, k - 1))
        /\ IsIntLiteral(SubSeq(s, k + 1, Len(s)))

IsNumLiteral(s) == IsIntLiteral(s) \/ IsFloatLiteral(s)

RECURSIVE ParseInt(_)
ParseInt(s) ==
    IF s = <<>> THEN 0
    ELSE 10 * ParseInt(SubSeq(s, 1, Len(s) - 1)) + DigitVal(s[Len(s)])

\* The value of a numeric literal, in units of 1/Scale.
ParseNumber(s) ==
    IF IsIntLiteral(s) THEN ParseInt(s) * Scale
    ELSE LET k == CHOOSE k \in 1..Len(s) : s[k] = "."
             frac == SubSeq(s, k + 1, Len(s))
         IN  ParseInt(SubSeq(s, 1, k - 1)) * Scale
               + (ParseInt(frac) * Scale) \div Pow10(Len(frac))

RECURSIVE FormatInt(_)
FormatInt(n) ==
    IF n < 10 THEN <<Digits[n + 1]>>
    ELSE FormatInt(n \div 10) \o <<Digits[(n % 10) + 1]>>

\* The fraction f (units of 1/10^places) as digits, trailing zeros dropped,
\* one digit at least.
RECURSIVE FormatFrac(_, _)
FormatFrac(f, places) ==
    IF places <= 1 THEN <<Digits[f + 1]>>
    ELSE IF f % 10 = 0 THEN FormatFrac(f \div 10, places - 1)
    ELSE FormatFrac(f \div 10, places - 1) \o <<Digits[(f % 10) + 1]>>

\* A mutant of FormatFloat: the fraction is dropped (float_format='%.0f').
FormatFloat_NoFraction(v) == FormatInt(v \div Scale) \o <<".", "0">>

\* repr of a float: 3.0, 6.5, 5.33.
FormatFloat(v) ==
    FormatInt(v \div Scale) \o <<".">> \o FormatFrac(v % Scale, Decimals)

\* ------------------------------------------------------------------- cells
NaN == [kind |-> "nan", v |-> 0, s |-> <<>>]

Num(v) == [kind |-> "num", v |-> v, s |-> <<>>]

Str(s) == [kind |-> "str", v |-> 0, s |-> s]

IsNa(c) == c.kind = "nan"

\* Series.notna().sum()
NotNaCount(cells) == Cardinality({i \in 1..Len(cells) : ~IsNa(cells[i])})

\* Series.dropna()
DropNa(cells) == SelectSeq(cells, LAMBDA c : ~IsNa(c))

RECURSIVE SumCells(_)
SumCells(cells) ==
    IF cells = <<>> THEN 0 ELSE Head(cells).v + SumCells(Tail(cells))

IsNumericDtype(dtype) == dtype \in {"int64", "float64"}

\* ----------------------------------------------------------------- tables
\* A table (DataFrame) is a sequence of columns [name, dtype, cells]; a file's
\* content (a grid) is a sequence of [name, fields], each field a text.
ColNames == <<"a", "b", "c", "d", "e", "f">>

\* The texts a field of an uploaded file holds: empty, a plain number, a
\* number with a thousands separator and a leading blank, a word.
RawFields == { <<>>, <<"3">>, <<" ", "1", ",", "0", "0", "0">>, <<"x">> }

\* The type inference of pd.read_csv / pd.read_excel on one column: an empty
\* field is missing; a column whose other fields are all numeric literals is
\* int64 (none missing, all integers) or float64; any other column is object
\* and keeps its texts.  A column of no rows is object.
ReadColumn(name, fields) ==
    LET n == Len(fields)
        present == {i \in 1..n : fields[i] # <<>>}
    IN  IF n = 0 THEN [name |-> name, dtype |-> "object", cells |-> <<>>]
        ELSE IF \A i \in present : IsNumLiteral(fields[i])
        THEN [name |-> name,
              dtype |-> IF present = 1..n /\ \A i \in 1..n : IsIntLiteral(fields[i])
                        THEN "int64" ELSE "float64",
              cells |-> [i \in 1..n |-> IF i \in present
                                        THEN Num(ParseNumber(fields[i])) ELSE NaN]]
        ELSE [name |-> name, dtype |-> "object",
              cells |-> [i \in 1..n |-> IF i \in present THEN Str(fields[i]) ELSE NaN]]

ReadTable(grid) == [i \in 1..Len(grid) |-> ReadColumn(grid[i].name, grid[i].fields)]

\* Series.astype(str): a missing entry becomes the text "nan".
AsStr(c) ==
    IF IsNa(c) THEN <<"n", "a", "n">>
    ELSE IF c.kind = "str" THEN c.s
    ELSE FormatFloat(c.v)

\* pd.to_numeric(..., errors="coerce") on one text: its value, or NaN when
\* it is no number ("nan" parses to NaN).
ToNumeric(s) == IF IsNumLiteral(s) THEN Num(ParseNumber(s)) ELSE NaN

\* df[col].astype(str).str.replace(',', '').str.strip(), then to_numeric.
Converted(cells) ==
    [i \in 1..Len(cells) |-> ToNumeric(Strip(RemoveChar(AsStr(cells[i]), ",")))]

\* The dtype to_numeric gives its result.
NumericDtypeOf(cells) ==
    IF \A i \in 1..Len(cells) : ~IsNa(cells[i]) /\ cells[i].v % Scale = 0
    THEN "int64" ELSE "float64"

\* A mutant of MajorityParses: half is enough.
MajorityParses_AtLeastHalf(converted) ==
    2 * NotNaCount(converted) >= Len(converted)

\* converted.notna().sum() / len(converted) > 0.5  (0/0 is nan: not > 0.5)
MajorityParses(converted) == 2 * NotNaCount(converted) > Len(converted)

\* One pass of the loop "Convert numeric-like columns safely".
CoerceColumn(col) ==
    IF col.dtype = "object"
    THEN LET converted == Converted(col.cells)
         IN  IF MajorityParses(converted)
             THEN [col |-> [col EXCEPT !.cells = converted,
                                       !.dtype = NumericDtypeOf(converted)],
                   numeric |-> TRUE]
             ELSE [col |-> col, numeric |-> FALSE]
    ELSE [col |-> col, numeric |-> IsNumericDtype(col.dtype)]

\* A mutant of Mean: the sum is divided by the number of rows.
Mean_OverAllRows(cells) ==
    IF DropNa(cells) = <<>> THEN NaN
    ELSE Num(SumCells(DropNa(cells)) \div Len(cells))

\* Series.mean(): the mean of the non-missing entries, NaN when there is none.
Mean(cells) ==
    LET present == DropNa(cells)
    IN  IF present = <<>> THEN NaN ELSE Num(SumCells(present) \div Len(present))

\* Series.fillna(value): a NaN value fills nothing.
FillNa(cells, value) ==
    [i \in 1..Len(cells) |-> IF IsNa(cells[i]) THEN value ELSE cells[i]]

\* A mutant of FillNumericColumn: the missing rows are dropped.
FillNumericColumn_DropRows(col) == [col EXCEPT !.cells = DropNa(col.cells)]

\* df[col].fillna(df[col].mean(), inplace=True)
FillNumericColumn(col) == [col EXCEPT !.cells = FillNa(col.cells, Mean(col.cells))]

\* Series.mode(): the most frequent non-missing values.
ModeValues(cells) ==
    LET present == DropNa(cells)
        count(c) == Cardinality({i \in 1..Len(present) : present[i] = c})
        values == {present[i] : i \in 1..Len(present)}
    IN  {c \in values : \A d \in values : count(d) <= count(c)}

\* mode() is sorted: [0] is the least of the most frequent values.
FirstMode(cells) ==
    CHOOSE c \in ModeValues(cells) : \A d \in ModeValues(cells) : ~StrLess(d.s, c.s)

\* The guard of the mode fill: "if not df[col].empty" (Series.empty: no rows).
ModeGuard(col) == Len(col.cells) > 0

\* df[col].mode()[0] raises when mode() is empty: no non-missing entry.
ModeRaises(col) ==
    col.dtype = "object" /\ ModeGuard(col) /\ ModeValues(col.cells) = {}

\* df[col].fillna(df[col].mode()[0], inplace=True), for a column it does not
\* raise on.
FillTextColumn(col) ==
    IF col.dtype = "object" /\ ModeGuard(col)
    THEN [col EXCEPT !.cells = FillNa(col.cells, FirstMode(col.cells))]
    ELSE col

\* ---------------------------------------------------------- generate_plots
\* The loop over df.columns that coerces: each column with its verdict.
Coerced(t) == [i \in 1..Len(t) |-> CoerceColumn(t[i])]

\* numeric_cols: the names of the columns classified numeric, in column order.
NumericColsOf(co) ==
    LET idx == SelectSeq([i \in 1..Len(co) |-> i], LAMBDA i : co[i].numeric)
    IN  [k \in 1..Len(idx) |-> co[idx[k]].col.name]

\* The loop "Fill missing numeric values with mean".
MeanFilled(co) ==
    [i \in 1..Len(co) |-> IF co[i].numeric THEN FillNumericColumn(co[i].col)
                          ELSE co[i].col]

\* The loop "Fill missing categorical/text values with mode" over the object
\* columns: it stops at the first column whose mode()[0] raises, the columns
\* before it filled.
RaisingColumns(t) == {i \in 1..Len(t) : ModeRaises(t[i])}

ModeFilled(t) ==
    [i \in 1..Len(t) |-> IF \A r \in RaisingColumns(t) : i < r
                         THEN FillTextColumn(t[i]) ELSE t[i]]

\* The coercion-and-imputation step: the table it leaves, numeric_cols and
\* whether it raised.
Clean(t) ==
    LET co == Coerced(t)
        filled == MeanFilled(co)
    IN  [df |-> ModeFilled(filled),
         numeric_cols |-> NumericColsOf(co),
         raised |-> RaisingColumns(filled) # {}]

Column(df, name) == df[CHOOSE i \in 1..Len(df) : df[i].name = name]

Image(kind, col) == [kind |-> kind, col |-> col]

\* A mutant of ColumnPlots: the box plot is left out.
ColumnPlots_HistogramOnly(col) ==
    IF DropNa(col.cells) = <<>> THEN <<>> ELSE <<Image("hist", col.name)>>

\* One pass of the plotting loop: nothing for a column with no non-missing
\* entry, else the histogram and then the box plot.
ColumnPlots(col) ==
    IF DropNa(col.cells) = <<>> THEN <<>>
    ELSE <<Image("hist", col.name), Image("box", col.name)>>

\* A mutant of WantsHeatmap: one numeric column is enough.
WantsHeatmap_One(numeric_cols) == Len(numeric_cols) >= 1

\* if len(numeric_cols) > 1
WantsHeatmap(numeric_cols) == Len(numeric_cols) > 1

RECURSIVE PlotsOf(_, _)
PlotsOf(df, names) ==
    IF names = <<>> THEN <<>>
    ELSE ColumnPlots(Column(df, Head(names))) \o PlotsOf(df, Tail(names))

\* The images generate_plots returns.
Images(df, numeric_cols) ==
    PlotsOf(df, numeric_cols)
      \o (IF WantsHeatmap(numeric_cols) THEN <<Image("heatmap", "")>> ELSE <<>>)

\* ------------------------------------------------------------ report assembly
\* The text of a cell in DataFrame.to_csv: a missing entry is an empty field.
CsvField(dtype, c) ==
    IF IsNa(c) THEN <<>>
    ELSE IF c.kind = "str" THEN c.s
    ELSE IF dtype = "int64" THEN FormatInt(c.v \div Scale)
    ELSE FormatFloat(c.v)

\* cleaned_df.to_csv(cleaned_csv_path, index=False)
ToCsv(df) ==
    [i \in 1..Len(df) |->
        [name |-> df[i].name,
         fields |-> [j \in 1..Len(df[i].cells) |-> CsvField(df[i].dtype, df[i].cells[j])]]]

\* The rows df.head(20) keeps.
HeadRows == 20

Min(a, b) == IF a < b THEN a ELSE b

\* DataFrame.head(n)
DfHead(df, n) ==
    [i \in 1..Len(df) |->
        [df[i] EXCEPT !.cells = SubSeq(df[i].cells, 1, Min(n, Len(df[i].cells)))]]

\* DataFrame.to_html: a missing entry is rendered NaN.
ToHtml(df) ==
    [i \in 1..Len(df) |->
        [name |-> df[i].name,
         fields |-> [j \in 1..Len(df[i].cells) |->
                        IF IsNa(df[i].cells[j]) THEN <<"N", "a", "N">>
                        ELSE CsvField(df[i].dtype, df[i].cells[j])]]]

\* ------------------------------------------------------------------ uploads
\* A filename is a sequence of tokens, "." one of them.
Filenames ==
    { <<>>, <<"data">>, <<"data", ".", "txt">>, <<"data", ".", "TXT">>,
      <<"data", ".", "csv">>, <<"data", ".", "xlsx">> }

ALLOWED_EXTENSIONS == { <<"csv">>, <<"xlsx">> }

\* str.lower() on a token.
Lower(tok) == IF tok = "TXT" THEN "txt" ELSE tok

HasDot(filename) == \E i \in 1..Len(filename) : filename[i] = "."

\* filename.rsplit(".", 1)[1].lower()
Extension(filename) ==
    LET k == CHOOSE k \in 1..Len(filename) :
                 filename[k] = "." /\ \A j \in (k + 1)..Len(filename) : filename[j] # "."
    IN  [j \in 1..(Len(filename) - k) |-> Lower(filename[k + j])]

\* A mutant of allowed_file: the extension is not looked at.
allowed_file_AnyExtension(filename) == HasDot(filename)

allowed_file(filename) ==
    HasDot(filename) /\ Extension(filename) \in ALLOWED_EXTENSIONS

RECURSIVE StripDots(_)
StripDots(name) ==
    IF name # <<>> /\ Head(name) = "." THEN StripDots(Tail(name))
    ELSE IF name # <<>> /\ name[Len(name)] = "."
         THEN StripDots(SubSeq(name, 1, Len(name) - 1))
    ELSE name

\* werkzeug's secure_filename on the names of the model: leading and trailing
\* dots are stripped.
secure_filename(filename) == StripDots(filename)

\* filename.endswith(".csv")
EndsWithCsv(filename) ==
    /\ Len(filename) >= 2
    /\ filename[Len(filename) - 1] = "."
    /\ filename[Len(filename)] = "csv"

\* The reader upload_file picks for the saved file.
ReaderOf(filename) == IF EndsWithCsv(filename) THEN "csv" ELSE "xlsx"

\* The grids an uploaded file holds: c columns of r rows, c * r <= MaxCells.
GridOf(f) == [i \in 1..Len(f) |-> [name |-> ColNames[i], fields |-> f[i]]]

\* -------------------------------------------------------------------- state
VARIABLES
    pc,            \* where the handler in progress stands; "idle" between requests
    req_no,        \* the number of upload requests received: the current upload's id
    request,       \* the upload request in progress: [hasFile, filename]
    response,      \* what the handler answered: [kind, src]
    uploads,       \* the names of the files in the directory uploads/
    static,        \* the upload that static/cleaned_data.csv and static/report.pdf
                   \* were written from (0: the file does not exist)
    orig,          \* the table as ingested, before generate_plots touched it
    df,            \* the DataFrame df of upload_file (generate_plots works on it in place)
    numeric_cols,  \* generate_plots' numeric_cols
    images,        \* generate_plots' images
    written_csv,   \* the grid this request wrote to static/cleaned_data.csv
    html           \* the rendered report: [table, plots]

vars == <<pc, req_no, request, response, uploads, static, orig, df,
          numeric_cols, images, written_csv, html>>

locals == <<orig, df, numeric_cols, images, written_csv, html>>

disk == <<uploads, static>>

NoRequest == [hasFile |-> FALSE, filename |-> <<>>]

Response(kind, src) == [kind |-> kind, src |-> src]

NoResponse == Response("", 0)

NoHtml == [table |-> <<>>, plots |-> <<>>]

Init ==
    /\ pc = "idle"
    /\ req_no = 0
    /\ request = NoRequest
    /\ response = NoResponse
    /\ uploads = {}
    /\ static = [csv |-> 0, pdf |-> 0]
    /\ orig = <<>>
    /\ df = <<>>
    /\ numeric_cols = <<>>
    /\ images = <<>>
    /\ written_csv = <<>>
    /\ html = NoHtml

\* ------------------------------------------------------------- upload_file
\* if "file" not in request.files: return "No file uploaded"
UploadNoFile ==
    /\ pc = "idle" /\ req_no < MaxRequests
    /\ req_no' = req_no + 1
    /\ request' = [hasFile |-> FALSE, filename |-> <<>>]
    /\ response' = Response("No file uploaded", 0)
    /\ pc' = "rejected"
    /\ UNCHANGED <<disk, locals>>

\* if not file or not allowed_file(file.filename): return "Invalid file type"
UploadInvalid ==
    /\ pc = "idle" /\ req_no < MaxRequests
    /\ \E filename \in Filenames :
        /\ filename = <<>> \/ ~allowed_file(filename)
        /\ request' = [hasFile |-> TRUE, filename |-> filename]
    /\ req_no' = req_no + 1
    /\ response' = Response("Invalid file type", 0)
    /\ pc' = "rejected"
    /\ UNCHANGED <<disk, locals>>

\* An accepted file is saved, and the reader its name picks cannot read its
\* content (a workbook named .csv, text named .xlsx): pd.read_csv or
\* pd.read_excel raises, and nothing catches it.
UploadUnreadable ==
    /\ pc = "idle" /\ req_no < MaxRequests
    /\ \E filename \in Filenames, fmt \in {"csv", "xlsx"} :
        /\ filename # <<>> /\ allowed_file(filename)
        /\ fmt # ReaderOf(secure_filename(filename))
        /\ request' = [hasFile |-> TRUE, filename |-> filename]
        /\ uploads' = uploads \cup {secure_filename(filename)}
    /\ req_no' = req_no + 1
    /\ response' = Response("error", 0)
    /\ pc' = "failed"
    /\ UNCHANGED <<static, locals>>

\* An accepted file is saved and read into df.
UploadRead ==
    /\ pc = "idle" /\ req_no < MaxRequests
    /\ \E filename \in Filenames, fmt \in {"csv", "xlsx"} :
        /\ filename # <<>> /\ allowed_file(filename)
        /\ fmt = ReaderOf(secure_filename(filename))
        /\ request' = [hasFile |-> TRUE, filename |-> filename]
        /\ uploads' = uploads \cup {secure_filename(filename)}
    /\ \E c \in 1..MaxCells :
         \E r \in 0..(MaxCells \div c) :
           \E f \in [1..c -> [1..r -> RawFields]] :
             /\ df' = ReadTable(GridOf(f))
             /\ orig' = df'
    /\ req_no' = req_no + 1
    /\ pc' = "parsed"
    /\ UNCHANGED <<response, static, numeric_cols, images, written_csv, html>>

\* plot_imgs, cleaned_df = generate_plots(df): df is changed in place, and
\* cleaned_df is df.  A raise in the mode fill ends the request.
GeneratePlots ==
    /\ pc = "parsed"
    /\ LET r == Clean(df)
       IN  /\ df' = r.df
           /\ numeric_cols' = r.numeric_cols
           /\ IF r.raised
              THEN /\ pc' = "failed"
                   /\ response' = Response("error", 0)
                   /\ images' = images
              ELSE /\ pc' = "plotted"
                   /\ response' = response
                   /\ images' = Images(r.df, r.numeric_cols)
    /\ UNCHANGED <<req_no, request, disk, orig, written_csv, html>>

\* cleaned_df.to_csv("static/cleaned_data.csv", index=False)
SaveCsv ==
    /\ pc = "plotted"
    /\ written_csv' = ToCsv(df)
    /\ static' = [static EXCEPT !.csv = req_no]
    /\ pc' = "exported"
    /\ UNCHANGED <<req_no, request, response, uploads, orig, df, numeric_cols,
                   images, html>>

\* pdf_file = generate_pdf(cleaned_df, plot_imgs): doc.build writes
\* static/report.pdf.
GeneratePdf ==
    /\ pc = "exported"
    /\ static' = [static EXCEPT !.pdf = req_no]
    /\ pc' = "documented"
    /\ UNCHANGED <<req_no, request, response, uploads, locals>>

\* doc.build raises (a row that fits no page, a write error): nothing
\* catches it, and static/report.pdf is left as it was.
GeneratePdfRaises ==
    /\ pc = "exported"
    /\ response' = Response("error", 0)
    /\ pc' = "failed"
    /\ UNCHANGED <<req_no, request, disk, locals>>

\* return render_template(..., table=df.head(20).to_html(...), plots=plot_imgs, ...)
Render ==
    /\ pc = "documented"
    /\ html' = [table |-> ToHtml(DfHead(df, HeadRows)), plots |-> images]
    /\ response' = Response("report", req_no)
    /\ pc' = "rendered"
    /\ UNCHANGED <<req_no, request, disk, orig, df, numeric_cols, images, written_csv>>

\* The handler has returned (or was aborted): its locals are gone.
EndRequest ==
    /\ pc \in {"rejected", "failed", "rendered", "served"}
    /\ pc' = "idle"
    /\ request' = NoRequest
    /\ response' = NoResponse
    /\ orig' = <<>>
    /\ df' = <<>>
    /\ numeric_cols' = <<>>
    /\ images' = <<>>
    /\ written_csv' = <<>>
    /\ html' = NoHtml
    /\ UNCHANGED <<req_no, disk>>

\* download_csv: send_file("static/cleaned_data.csv")
DownloadCsv ==
    /\ pc = "idle"
    /\ response' = IF static.csv = 0 THEN Response("error", 0)
                   ELSE Response("attachment", static.csv)
    /\ pc' = "served"
    /\ UNCHANGED <<req_no, request, disk, locals>>

Next ==
    \/ UploadNoFile
    \/ UploadInvalid
    \/ UploadUnreadable
    \/ UploadRead
    \/ GeneratePlots
    \/ SaveCsv
    \/ GeneratePdf
    \/ GeneratePdfRaises
    \/ Render
    \/ EndRequest
    \/ DownloadCsv

\* The server: requests handled one at a time.
Spec == Init /\ [][Next]_vars

\* ------------------------------------------------- generate_plots, called
\* The tables generate_plots can be handed: columns of any dtype, an object
\* column of any mix of texts and missing entries.
CellsOf(dtype) ==
    IF dtype = "object" THEN {NaN} \cup {Str(f) : f \in RawFields \ {<<>>}}
    ELSE IF dtype = "float64" THEN {NaN, Num(3 * Scale)}
    ELSE {Num(3 * Scale), Num(4 * Scale)}

ColumnsOf(r) ==
    UNION {{[dtype |-> d, cells |-> cs] : cs \in [1..r -> CellsOf(d)]} :
              d \in {"object", "float64", "int64"}}

AnyTables ==
    UNION {UNION {{[i \in 1..c |-> [name |-> ColNames[i], dtype |-> cols[i].dtype,
                                    cells |-> cols[i].cells]] :
                      cols \in [1..c -> ColumnsOf(r)]} :
                  r \in 0..(MaxCells \div c)} :
           c \in 1..MaxCells}

InitCall ==
    /\ pc = "parsed"
    /\ req_no = 1
    /\ request = NoRequest
    /\ response = NoResponse
    /\ uploads = {}
    /\ static = [csv |-> 0, pdf |-> 0]
    /\ df \in AnyTables
    /\ orig = df
    /\ numeric_cols = <<>>
    /\ images = <<>>
    /\ written_csv = <<>>
    /\ html = NoHtml

NextCall == GeneratePlots

\* generate_plots called on any table.
SpecCall == InitCall /\ [][NextCall]_vars

\* =================================================================== claims
\* generate_plots has returned: df is the cleaned table.
Returned == pc \in {"plotted", "exported", "documented", "rendered"}

\* The cleaned table has been written to static/cleaned_data.csv.
Exported == pc \in {"exported", "documented", "rendered"}

IsIn(name, names) == \E k \in 1..Len(names) : names[k] = name

IsNumericCol(i) == IsIn(df[i].name, numeric_cols)

\* The column as the coercion leaves it, before any fill.
CoercedCells(i) ==
    IF orig[i].dtype = "object" /\ IsNumericCol(i)
    THEN Converted(orig[i].cells) ELSE orig[i].cells

\* C1: the table generate_plots returns has the rows, the column names and
\* the column order of the ingested table, and no other column.
C1_ShapePreserved ==
    Returned =>
        /\ Len(df) = Len(orig)
        /\ \A i \in 1..Len(orig) :
            /\ df[i].name = orig[i].name
            /\ Len(df[i].cells) = Len(orig[i].cells)

\* A table of two columns or more that cleaning changed.
C1_Witness ==
    /\ Returned
    /\ Len(orig) >= 2
    /\ df # orig
    /\ \E i \in 1..Len(orig) : orig[i].dtype = "object" /\ IsNumericCol(i)

\* The text column's entries that parse, and its verdicts.
ParsedCount(i) == NotNaCount(Converted(orig[i].cells))

BecameNumeric(i) ==
    /\ IsNumericCol(i)
    /\ IsNumericDtype(df[i].dtype)
    /\ \A j \in 1..Len(orig[i].cells) :
        LET parsed == Converted(orig[i].cells)[j]
        IN  ~IsNa(parsed) => df[i].cells[j] = parsed

StayedText(i) ==
    /\ ~IsNumericCol(i)
    /\ df[i].dtype = "object"
    /\ \A j \in 1..Len(orig[i].cells) :
        ~IsNa(orig[i].cells[j]) => df[i].cells[j] = orig[i].cells[j]

\* C2 as claimed: a text column is reclassified numeric when at least half
\* of its non-empty entries parse, and stays text when fewer do.
C2_AtLeastHalfOfNonEmpty ==
    Returned =>
        \A i \in 1..Len(orig) :
            (orig[i].dtype = "object" /\ NotNaCount(orig[i].cells) > 0) =>
                IF 2 * ParsedCount(i) >= NotNaCount(orig[i].cells)
                THEN BecameNumeric(i) ELSE StayedText(i)

\* C2 as amended: a text column is reclassified numeric when more than half
\* of its rows, the missing ones counted, parse, and stays text otherwise.
C2_MoreThanHalfOfRows ==
    Returned =>
        \A i \in 1..Len(orig) :
            orig[i].dtype = "object" =>
                IF 2 * ParsedCount(i) > Len(orig[i].cells)
                THEN BecameNumeric(i) ELSE StayedText(i)

\* A text column with a missing entry, all of whose non-empty entries parse
\* and exactly half of whose rows do: it stayed text.
C2_Witness ==
    /\ Returned
    /\ \E i \in 1..Len(orig) :
        /\ orig[i].dtype = "object"
        /\ ParsedCount(i) > 0
        /\ ParsedCount(i) = NotNaCount(orig[i].cells)
        /\ 2 * ParsedCount(i) = Len(orig[i].cells)
        /\ StayedText(i)

\* C3: in a numeric column with a non-missing entry, each entry that was
\* missing or failed to parse holds the mean of the non-missing entries (to
\* the precision of the floats) and the other entries are unchanged.
C3_MeanImputed ==
    Returned =>
        \A i \in 1..Len(orig) :
            LET present == DropNa(CoercedCells(i))
            IN  (IsNumericCol(i) /\ present # <<>>) =>
                    \A j \in 1..Len(df[i].cells) :
                        IF IsNa(CoercedCells(i)[j])
                        THEN /\ df[i].cells[j].kind = "num"
                             /\ Len(present) * df[i].cells[j].v <= SumCells(present)
                             /\ SumCells(present) < Len(present) * (df[i].cells[j].v + 1)
                        ELSE df[i].cells[j] = CoercedCells(i)[j]

\* A numeric column of two different values and an entry that was filled.
C3_Witness ==
    /\ Returned
    /\ \E i \in 1..Len(orig) :
        /\ IsNumericCol(i)
        /\ \E j, k, m \in 1..Len(orig[i].cells) :
            /\ IsNa(CoercedCells(i)[j])
            /\ ~IsNa(CoercedCells(i)[k]) /\ ~IsNa(CoercedCells(i)[m])
            /\ CoercedCells(i)[k] # CoercedCells(i)[m]
            /\ ~IsNa(df[i].cells[j])

\* The numeric columns that hold a non-missing entry, by index.
Plotted == {i \in 1..Len(df) : IsNumericCol(i) /\ DropNa(df[i].cells) # <<>>}

HeatmapCount(n) == IF n >= 2 THEN 1 ELSE 0

\* C4 as claimed: twice the number of numeric columns, plus one when two or
\* more columns are numeric.
C4_TwiceNumericPlusOne ==
    Returned =>
        Len(images) = 2 * Len(numeric_cols) + HeatmapCount(Len(numeric_cols))

\* C4 as amended: twice the number of numeric columns that hold a
\* non-missing entry, plus one when two or more columns are numeric.
C4_TwicePlottedPlusOne ==
    Returned =>
        Len(images) = 2 * Cardinality(Plotted) + HeatmapCount(Len(numeric_cols))

\* Two numeric columns, one of them all missing: three images.
C4_Witness ==
    /\ Returned
    /\ Len(numeric_cols) >= 2
    /\ Cardinality(Plotted) = 1
    /\ Len(images) = 3

\* The plotted columns in table order, then the sequence with a pair per
\* column and h heatmaps at the end.
PlottedInOrder ==
    SelectSeq([i \in 1..Len(df) |-> i], LAMBDA i : i \in Plotted)

ExpectedImages(h) ==
    [k \in 1..(2 * Len(PlottedInOrder) + h) |->
        IF k > 2 * Len(PlottedInOrder) THEN Image("heatmap", "")
        ELSE IF k % 2 = 1 THEN Image("hist", df[PlottedInOrder[(k + 1) \div 2]].name)
        ELSE Image("box", df[PlottedInOrder[k \div 2]].name)]

\* C9 as claimed: the pairs in column order, the columns with no non-missing
\* entry skipped, and the heatmap last iff two or more columns remain.
C9_HeatmapIffTwoRemain ==
    Returned => images = ExpectedImages(HeatmapCount(Cardinality(Plotted)))

\* C9 as amended: the same order, and the heatmap last iff two or more
\* columns were classified numeric, skipped or not.
C9_HeatmapIffTwoNumeric ==
    Returned => images = ExpectedImages(HeatmapCount(Len(numeric_cols)))

\* A skipped numeric column before a plotted one, and the heatmap last.
C9_Witness ==
    /\ Returned
    /\ \E i, k \in 1..Len(df) :
        /\ i < k
        /\ IsNumericCol(i) /\ i \notin Plotted
        /\ k \in Plotted
    /\ images # <<>>
    /\ images[Len(images)].kind = "heatmap"

\* C5, as claimed: the report's table is the first HeadRows rows of the table
\* as ingested.
C5_HtmlShowsIngested ==
    pc = "rendered" => html.table = ToHtml(DfHead(orig, HeadRows))

\* The filenames with no accepted extension.
NotAccepted == { <<"data">>, <<"data", ".", "txt">>, <<"data", ".", "TXT">> }

\* C6: an upload with no file field, or with a filename of no accepted
\* extension, is answered with a plain-text rejection, and the step leaves
\* uploads/, both exports and the table alone.
C6_RejectedWritesNothing ==
    [][(req_no' = req_no + 1
          /\ (~request'.hasFile \/ request'.filename \in NotAccepted))
        => /\ pc' = "rejected"
           /\ response'.kind \in {"No file uploaded", "Invalid file type"}
           /\ UNCHANGED <<uploads, static, df, written_csv>>]_vars

\* A .txt upload rejected when an earlier upload had left its files.
C6_Witness ==
    /\ pc = "rejected"
    /\ request.filename = <<"data", ".", "txt">>
    /\ response.kind = "Invalid file type"
    /\ static.csv # 0 /\ static.pdf # 0
    /\ uploads # {}

\* C7, as claimed: the coercion-and-imputation step raises for no table.
C7_CleaningNeverRaises == pc # "failed"

\* The exported file read back, and cleaned again.
ReadBack == ReadTable(written_csv)

CleanedAgain == Clean(ReadBack)

C10_ExportsFromSameUpload ==
    (pc = "idle" /\ static.pdf # 0) => static.csv = static.pdf

====
